---- MODULE Spec2Model ----
(***************************************************************************)
(* scan_unchecked (src/main.rs): walks a directory, parses every .rs file, *)
(* collects the functions and methods whose name contains "unchecked",     *)
(* looks in the owning file for a declaration named as the entry with      *)
(* "_unchecked" removed, and writes one report row per entry.              *)
(*                                                                         *)
(* Strings are TLA+ strings; Len, SubSeq and \o act on them character by   *)
(* character.  A HashSet is a bag whose insert keeps one copy; its         *)
(* iteration order is chosen by the environment.                            *)
(***************************************************************************)
EXTENDS Bags, FiniteSets, Integers, Sequences, TLC

VARIABLES
    files,                \* path -> [ok, items]: what read_to_string + parse_file give
    pc,                   \* position of main
    stack,                \* process_directory recursion: frames of paths still to visit
    unchecked_functions,  \* Arc<Mutex<HashSet<(String, String)>>>
    pending,              \* check_for_safe_versions: entries output.iter() has not yielded
    results,              \* HashSet<(String, String, String)>
    rows_left,            \* main: rows the final for loop has not yielded
    report,               \* safe_version_results.txt on disk
    run,                  \* number of the current run of the program
    prev_report,          \* the report the previous run left on disk
    wpc,                  \* concurrent process_file callers: position
    wfile,                \* concurrent process_file callers: file_path argument
    wvisitor,             \* concurrent process_file callers: visitor.unchecked_functions
    mutex,                \* holder of the Mutex, 0 when free
    rname,                \* input of the marker-stripping check
    rsafe                 \* safe_func_name computed from rname

vars == <<files, pc, stack, unchecked_functions, pending, results, rows_left,
          report, run, prev_report, wpc, wfile, wvisitor, mutex, rname, rsafe>>

mainVars == <<pc, stack, unchecked_functions, pending, results, rows_left,
              report, run, prev_report>>
workerVars == <<wpc, wfile, wvisitor, mutex>>
replaceVars == <<rname, rsafe>>

-----------------------------------------------------------------------------
(* Bounds *)

MaxItems == 2      \* top-level items of the file under library/
NumRuns == 2       \* runs of the program over the same tree
NumWorkers == 2    \* concurrent callers of process_file
MaxFrags == 4      \* fragments a name of the marker-stripping check is built from

-----------------------------------------------------------------------------
(* Strings *)

\* str::contains
Contains(s, pat) ==
    \E i \in 1..(Len(s) - Len(pat) + 1) : SubSeq(s, i, i + Len(pat) - 1) = pat

MatchAt(s, i, pat) ==
    /\ i + Len(pat) - 1 <= Len(s)
    /\ SubSeq(s, i, i + Len(pat) - 1) = pat

RECURSIVE ReplaceFrom(_, _, _, _)
\* str::replace from position i on: non-overlapping matches, left to right
ReplaceFrom(s, i, from, to) ==
    IF i > Len(s) THEN ""
    ELSE IF MatchAt(s, i, from)
         THEN to \o ReplaceFrom(s, i + Len(from), from, to)
         ELSE SubSeq(s, i, i) \o ReplaceFrom(s, i + 1, from, to)

Replace(s, from, to) == ReplaceFrom(s, 1, from, to)

\* str::replacen(.., 1) in place of str::replace: only the first match goes
SafeFuncNameFirstOnly(func_name) ==
    IF Contains(func_name, "_unchecked")
    THEN LET i == CHOOSE k \in 1..Len(func_name) :
                    /\ MatchAt(func_name, k, "_unchecked")
                    /\ \A m \in 1..(k - 1) : ~MatchAt(func_name, m, "_unchecked")
         IN SubSeq(func_name, 1, i - 1)
                \o SubSeq(func_name, i + Len("_unchecked"), Len(func_name))
    ELSE func_name

\* func_name.replace("_unchecked", "")
SafeFuncName(func_name) == Replace(func_name, "_unchecked", "")

\* fn_name.contains("unchecked")
IsUnchecked(fn_name) == Contains(fn_name, "unchecked")

-----------------------------------------------------------------------------
(* Declaration trees (syn::File) *)

\* An item is [kind, name, items]; items holds what is nested in it: the items
\* declared in the block of a fn or method, the impl items of an impl, the
\* trait items of a trait, the items of an inline mod.
Fn(n, body) == [kind |-> "fn", name |-> n, items |-> body]
Method(n, body) == [kind |-> "method", name |-> n, items |-> body]
TraitFn(n, body) == [kind |-> "traitfn", name |-> n, items |-> body]
Impl(impl_items) == [kind |-> "impl", name |-> "", items |-> impl_items]
Trait(trait_items) == [kind |-> "trait", name |-> "", items |-> trait_items]
Mod(n, content) == [kind |-> "mod", name |-> n, items |-> content]

Parsed(its) == [ok |-> TRUE, items |-> its]
Malformed == [ok |-> FALSE, items |-> <<>>]

RECURSIVE VisitItems(_, _, _)
RECURSIVE VisitItem(_, _)

\* The methods an impl holds directly whose name is marked (the loop of
\* visit_item_impl over node.items)
ImplMarked(node, current_file) ==
    { <<current_file, node.items[i].name>> :
        i \in { j \in DOMAIN node.items :
                  /\ node.items[j].kind = "method"
                  /\ IsUnchecked(node.items[j].name) } }

\* FunctionVisitor on one item: visit_item_fn and visit_item_impl as overridden,
\* every other item by syn's default traversal
VisitItem(node, current_file) ==
    CASE node.kind = "fn" ->
            (IF IsUnchecked(node.name) THEN {<<current_file, node.name>>} ELSE {})
            \cup VisitItems(node.items, 1, current_file)
      [] node.kind = "impl" ->
            ImplMarked(node, current_file)
            \cup VisitItems(node.items, 1, current_file)
      [] OTHER -> VisitItems(node.items, 1, current_file)

VisitItems(its, i, current_file) ==
    IF i > Len(its) THEN {}
    ELSE VisitItem(its[i], current_file) \cup VisitItems(its, i + 1, current_file)

\* visitor.visit_file(&parsed_file): visitor.unchecked_functions afterwards
VisitFile(parsed_file, current_file) == VisitItems(parsed_file.items, 1, current_file)

RECURSIVE ImplHasFn(_, _, _)
\* the inner loop of check_for_safe_versions over item_impl.items
ImplHasFn(impl_items, i, safe_func_name) ==
    IF i > Len(impl_items) THEN FALSE
    ELSE IF impl_items[i].kind = "method" /\ impl_items[i].name = safe_func_name
         THEN TRUE
         ELSE ImplHasFn(impl_items, i + 1, safe_func_name)

RECURSIVE FoundSafeFunc(_, _, _)
\* the loop of check_for_safe_versions over parsed_file.items: found_safe_func
FoundSafeFunc(its, i, safe_func_name) ==
    IF i > Len(its) THEN FALSE
    ELSE CASE its[i].kind = "fn" ->
                IF its[i].name = safe_func_name THEN TRUE
                ELSE FoundSafeFunc(its, i + 1, safe_func_name)
           [] its[i].kind = "impl" ->
                ImplHasFn(its[i].items, 1, safe_func_name)
                \/ FoundSafeFunc(its, i + 1, safe_func_name)
           [] OTHER -> FoundSafeFunc(its, i + 1, safe_func_name)

\* the search run over every file of the tree, not over the owning file alone
ResultRowAnyFile(file_path, func_name, parsed_file) ==
    IF \E q \in DOMAIN files :
          files[q].ok /\ FoundSafeFunc(files[q].items, 1, SafeFuncName(func_name))
    THEN <<file_path, func_name, SafeFuncName(func_name)>>
    ELSE <<file_path, func_name, "None">>

\* the row keyed by the safe name, the unchecked name left out
ResultRowNoName(file_path, func_name, parsed_file) ==
    IF FoundSafeFunc(parsed_file.items, 1, SafeFuncName(func_name))
    THEN <<file_path, SafeFuncName(func_name), SafeFuncName(func_name)>>
    ELSE <<file_path, SafeFuncName(func_name), "None">>

\* the row check_for_safe_versions inserts for one entry
ResultRow(file_path, func_name, parsed_file) ==
    IF FoundSafeFunc(parsed_file.items, 1, SafeFuncName(func_name))
    THEN <<file_path, func_name, SafeFuncName(func_name)>>
    ELSE <<file_path, func_name, "None">>

-----------------------------------------------------------------------------
(* HashSet *)

\* HashSet::insert
HashInsert(set, value) ==
    IF BagIn(value, set) THEN set ELSE set (+) SetToBag({value})

RECURSIVE InsertAll(_, _)
\* for func in visitor.unchecked_functions { output.insert(func); }
InsertAll(set, values) ==
    IF values = {} THEN set
    ELSE LET v == CHOOSE x \in values : TRUE
         IN InsertAll(HashInsert(set, v), values \ {v})

-----------------------------------------------------------------------------
(* The tree under crate_dir *)

crate_dir == "library"

\* fs::read_dir: the entries of a directory
ReadDir(dir_path) ==
    CASE dir_path = "library" -> {"library/a.rs", "library/sub", "library/notes.txt"}
      [] dir_path = "library/sub" -> {"library/sub/b.rs"}
      [] OTHER -> {}

\* path.is_dir()
IsDir(path) == path \in {"library", "library/sub"}

RECURSIVE LastIndexOf(_, _, _)
LastIndexOf(s, ch, i) ==
    IF i = 0 THEN 0
    ELSE IF SubSeq(s, i, i) = ch THEN i ELSE LastIndexOf(s, ch, i - 1)

\* path.extension(): what follows the last dot of the file name, "" when none
Extension(path) ==
    LET slash == LastIndexOf(path, "/", Len(path))
        dot == LastIndexOf(path, ".", Len(path))
    IN IF dot > slash + 1 THEN SubSeq(path, dot + 1, Len(path)) ELSE ""

RsFiles == {"library/a.rs", "library/sub/b.rs"}

\* the orders in which an iterator may yield the elements of a set
Orders(S) ==
    { q \in [1..Cardinality(S) -> S] :
        \A i, j \in 1..Cardinality(S) : i # j => q[i] # q[j] }

Names == {"get", "get_unchecked", "unchecked_get"}
NestedNames == {"get", "get_unchecked"}

\* the items the file library/a.rs is built from
ItemUniverse ==
    { Fn(n, <<>>) : n \in Names }
    \cup { Impl(<<Method(n, <<>>)>>) : n \in NestedNames }
    \cup { Mod("m", <<Fn(n, <<>>)>>) : n \in NestedNames }
    \cup { Fn("outer", <<Fn(n, <<>>)>>) : n \in NestedNames }
    \cup { Trait(<<TraitFn("get_unchecked", <<>>)>>) }

SeqsUpTo(S, n) == UNION { [1..k -> S] : k \in 0..n }

ContentsA == { Parsed(its) : its \in SeqsUpTo(ItemUniverse, MaxItems) }

ContentsB ==
    { Malformed,
      Parsed(<<>>),
      Parsed(<<Fn("get", <<>>)>>),
      Parsed(<<Impl(<<Method("get_unchecked", <<>>), Method("get", <<>>)>>)>>) }

-----------------------------------------------------------------------------
(* The report *)

RECURSIVE Repeat(_, _)
Repeat(ch, n) == IF n <= 0 THEN "" ELSE ch \o Repeat(ch, n - 1)

\* {:w$} of a string: padded with spaces on the right to w, never cut
Pad(s, w) == s \o Repeat(" ", w - Len(s))

MaxOf(S) == IF S = {} THEN 0 ELSE CHOOSE m \in S : \A x \in S : x <= m

\* max_file_path_len, max_unchecked_func_len, max_safe_func_len
MaxLens(rows) ==
    << MaxOf({ Len(r[1]) : r \in BagToSet(rows) }),
       MaxOf({ Len(r[2]) : r \in BagToSet(rows) }),
       MaxOf({ Len(r[3]) : r \in BagToSet(rows) }) >>

\* writeln!(file, "| {:a$} | {:b$} | {:c$} |", ...)
RowLine(row, lens) ==
    "| " \o Pad(row[1], lens[1] + 2) \o " | " \o Pad(row[2], lens[2] + 2)
         \o " | " \o Pad(row[3], lens[3] + 2) \o " |"

HeaderLine(lens) ==
    RowLine(<<"File Path", "Unchecked Function", "Safe Function">>, lens)

\* writeln!(file, "|{:-<a$}|{:-<b$}|{:-<c$}|", "", "", "", ...)
SeparatorLine(lens) ==
    "|" \o Repeat("-", lens[1] + 2) \o "|" \o Repeat("-", lens[2] + 2)
        \o "|" \o Repeat("-", lens[3] + 2) \o "|"

NoFile == [exists |-> FALSE, lines |-> <<>>]
Created == [exists |-> TRUE, lines |-> <<>>]
Written(file, line) == [file EXCEPT !.lines = Append(@, line)]

-----------------------------------------------------------------------------
(* main *)

IdleWorkers ==
    /\ wpc = [w \in 1..NumWorkers |-> "idle"]
    /\ wfile = [w \in 1..NumWorkers |-> ""]
    /\ wvisitor = [w \in 1..NumWorkers |-> {}]
    /\ mutex = 0

IdleReplace == rname = "" /\ rsafe = ""

Init ==
    /\ files \in { [p \in RsFiles |-> IF p = "library/a.rs" THEN a ELSE b] :
                     a \in ContentsA, b \in ContentsB }
    /\ pc = "start"
    /\ stack = <<>>
    /\ unchecked_functions = EmptyBag
    /\ pending = EmptyBag
    /\ results = EmptyBag
    /\ rows_left = EmptyBag
    /\ report = NoFile
    /\ run = 1
    /\ prev_report = NoFile
    /\ IdleWorkers
    /\ IdleReplace

Fail ==
    /\ pc' = "failed"
    /\ UNCHANGED <<stack, unchecked_functions, pending, results, rows_left, report>>

\* the frame on top of the stack and the path its loop is at
Top == stack[Len(stack)]
Cur == Top[1]
\* the stack once the loop of the top frame has moved past its current path
Advanced == [stack EXCEPT ![Len(stack)] = Tail(@)]

\* main calls process_directory(crate_dir): fs::read_dir gives the paths, or fails
Start ==
    /\ pc = "start"
    /\ \/ /\ \E paths \in Orders(ReadDir(crate_dir)) : stack' = <<paths>>
          /\ pc' = "walk"
          /\ UNCHANGED <<unchecked_functions, pending, results, rows_left, report>>
       \/ Fail
    /\ UNCHANGED <<files, run, prev_report, workerVars, replaceVars>>

\* path.is_dir(): the recursive call of process_directory
WalkDir ==
    /\ pc = "walk" /\ stack # <<>> /\ Top # <<>>
    /\ IsDir(Cur)
    /\ \/ /\ \E paths \in Orders(ReadDir(Cur)) : stack' = Append(Advanced, paths)
          /\ UNCHANGED <<pc, unchecked_functions, pending, results, rows_left, report>>
       \/ Fail
    /\ UNCHANGED <<files, run, prev_report, workerVars, replaceVars>>

\* process_file without other callers: read, parse, visit, lock, insert, unlock
ProcessFileSeq(file_path) ==
    \/ /\ files[file_path].ok
       /\ unchecked_functions' =
             InsertAll(unchecked_functions, VisitFile(files[file_path], file_path))
       /\ stack' = Advanced
       /\ UNCHANGED <<pc, pending, results, rows_left, report>>
    \/ Fail

\* ext == "rs": process_file(&path_display, unchecked_functions)?
WalkFile ==
    /\ pc = "walk" /\ stack # <<>> /\ Top # <<>>
    /\ ~IsDir(Cur)
    /\ Extension(Cur) = "rs"
    /\ ProcessFileSeq(Cur)
    /\ UNCHANGED <<files, run, prev_report, workerVars, replaceVars>>

\* neither a directory nor a .rs file
WalkSkip ==
    /\ pc = "walk" /\ stack # <<>> /\ Top # <<>>
    /\ ~IsDir(Cur)
    /\ Extension(Cur) # "rs"
    /\ stack' = Advanced
    /\ UNCHANGED <<files, pc, unchecked_functions, pending, results, rows_left,
                   report, run, prev_report, workerVars, replaceVars>>

\* the loop of a process_directory call is over: Ok(()); the outermost call
\* returns to main, which calls check_for_safe_versions
WalkReturn ==
    /\ pc = "walk" /\ stack # <<>> /\ Top = <<>>
    /\ stack' = SubSeq(stack, 1, Len(stack) - 1)
    /\ IF Len(stack) = 1
       THEN pc' = "check" /\ pending' = unchecked_functions /\ results' = EmptyBag
       ELSE UNCHANGED <<pc, pending, results>>
    /\ UNCHANGED <<files, unchecked_functions, rows_left, report, run, prev_report,
                   workerVars, replaceVars>>

\* one iteration of the loop of check_for_safe_versions, on the entry
\* output.iter() yields next
CheckEntry ==
    /\ pc = "check"
    /\ \E e \in BagToSet(pending) :
         \/ /\ files[e[1]].ok
            /\ results' = HashInsert(results, ResultRow(e[1], e[2], files[e[1]]))
            /\ pending' = pending (-) SetToBag({e})
            /\ UNCHANGED <<pc, stack, unchecked_functions, rows_left, report>>
         \/ Fail
    /\ UNCHANGED <<files, run, prev_report, workerVars, replaceVars>>

\* Ok(results): main goes on to File::create
CheckReturn ==
    /\ pc = "check"
    /\ pending = EmptyBag
    /\ pc' = "create"
    /\ UNCHANGED <<files, stack, unchecked_functions, pending, results, rows_left,
                   report, run, prev_report, workerVars, replaceVars>>

\* File::create("safe_version_results.txt")?
CreateReport ==
    /\ pc = "create"
    /\ \/ /\ report' = Created
          /\ pc' = "header"
          /\ UNCHANGED <<stack, unchecked_functions, pending, results, rows_left>>
       \/ Fail
    /\ UNCHANGED <<files, run, prev_report, workerVars, replaceVars>>

\* the first writeln!
WriteHeader ==
    /\ pc = "header"
    /\ \/ /\ report' = Written(report, HeaderLine(MaxLens(results)))
          /\ pc' = "separator"
          /\ UNCHANGED <<stack, unchecked_functions, pending, results, rows_left>>
       \/ Fail
    /\ UNCHANGED <<files, run, prev_report, workerVars, replaceVars>>

\* the second writeln!; the for loop then takes safe_version_results
WriteSeparator ==
    /\ pc = "separator"
    /\ \/ /\ report' = Written(report, SeparatorLine(MaxLens(results)))
          /\ pc' = "rows"
          /\ rows_left' = results
          /\ UNCHANGED <<stack, unchecked_functions, pending, results>>
       \/ Fail
    /\ UNCHANGED <<files, run, prev_report, workerVars, replaceVars>>

\* one iteration of the final loop, on the row the HashSet yields next
WriteRow ==
    /\ pc = "rows"
    /\ \E r \in BagToSet(rows_left) :
         \/ /\ report' = Written(report, RowLine(r, MaxLens(results)))
            /\ rows_left' = rows_left (-) SetToBag({r})
            /\ UNCHANGED <<pc, stack, unchecked_functions, pending, results>>
         \/ Fail
    /\ UNCHANGED <<files, run, prev_report, workerVars, replaceVars>>

\* println!(...); Ok(())
Finish ==
    /\ pc = "rows"
    /\ rows_left = EmptyBag
    /\ pc' = "done"
    /\ UNCHANGED <<files, stack, unchecked_functions, pending, results, rows_left,
                   report, run, prev_report, workerVars, replaceVars>>

\* the program is run again over the same tree; the report of the run before
\* is still on disk
RunAgain ==
    /\ pc = "done"
    /\ run < NumRuns
    /\ run' = run + 1
    /\ prev_report' = report
    /\ pc' = "start"
    /\ stack' = <<>>
    /\ unchecked_functions' = EmptyBag
    /\ pending' = EmptyBag
    /\ results' = EmptyBag
    /\ rows_left' = EmptyBag
    /\ UNCHANGED <<files, report, workerVars, replaceVars>>

Next ==
    \/ Start
    \/ WalkDir
    \/ WalkFile
    \/ WalkSkip
    \/ WalkReturn
    \/ CheckEntry
    \/ CheckReturn
    \/ CreateReport
    \/ WriteHeader
    \/ WriteSeparator
    \/ WriteRow
    \/ Finish
    \/ RunAgain

Spec == Init /\ [][Next]_vars

-----------------------------------------------------------------------------
(* process_file called from several threads on one shared set *)

Workers == 1..NumWorkers

ContentsConc ==
    { Malformed,
      Parsed(<<Fn("get_unchecked", <<>>)>>),
      Parsed(<<Fn("get_unchecked", <<>>), Impl(<<Method("unchecked_get", <<>>)>>)>>),
      Parsed(<<Mod("m", <<Fn("get_unchecked", <<>>)>>), Fn("get_unchecked", <<>>),
               Fn("get", <<>>)>>) }

InitConc ==
    /\ files \in [RsFiles -> ContentsConc]
    /\ pc = "threads"
    /\ stack = <<>>
    /\ unchecked_functions = EmptyBag
    /\ pending = EmptyBag
    /\ results = EmptyBag
    /\ rows_left = EmptyBag
    /\ report = NoFile
    /\ run = 1
    /\ prev_report = NoFile
    /\ wpc = [w \in Workers |-> "call"]
    /\ wfile \in [Workers -> RsFiles]
    /\ wvisitor = [w \in Workers |-> {}]
    /\ mutex = 0
    /\ IdleReplace

\* a lock that never waits
LockNeverWaits(holder) == TRUE

\* Mutex::lock returns once no other thread holds the guard
LockFree(holder) == holder = 0

\* fs::read_to_string, parse_file and visitor.visit_file: local to the caller;
\* either ? returns the error
PfVisit(w) ==
    /\ wpc[w] = "call"
    /\ \/ /\ files[wfile[w]].ok
          /\ wvisitor' = [wvisitor EXCEPT ![w] = VisitFile(files[wfile[w]], wfile[w])]
          /\ wpc' = [wpc EXCEPT ![w] = "lock"]
       \/ /\ wpc' = [wpc EXCEPT ![w] = "failed"]
          /\ UNCHANGED wvisitor
    /\ UNCHANGED <<files, mainVars, wfile, mutex, replaceVars>>

\* let mut output = unchecked_functions.lock().unwrap();
PfLock(w) ==
    /\ wpc[w] = "lock"
    /\ LockFree(mutex)
    /\ mutex' = w
    /\ wpc' = [wpc EXCEPT ![w] = "insert"]
    /\ UNCHANGED <<files, mainVars, wfile, wvisitor, replaceVars>>

\* output.insert(func) for the next func of visitor.unchecked_functions
PfInsert(w) ==
    /\ wpc[w] = "insert"
    /\ \E func \in wvisitor[w] :
         /\ unchecked_functions' = HashInsert(unchecked_functions, func)
         /\ wvisitor' = [wvisitor EXCEPT ![w] = @ \ {func}]
    /\ UNCHANGED <<files, pc, stack, pending, results, rows_left, report, run,
                   prev_report, wpc, wfile, mutex, replaceVars>>

\* Ok(()): the guard goes out of scope and the Mutex is released
PfReturn(w) ==
    /\ wpc[w] = "insert"
    /\ wvisitor[w] = {}
    /\ mutex' = 0
    /\ wpc' = [wpc EXCEPT ![w] = "returned"]
    /\ UNCHANGED <<files, mainVars, wfile, wvisitor, replaceVars>>

NextConc ==
    \E w \in Workers :
        \/ PfVisit(w)
        \/ PfLock(w)
        \/ PfInsert(w)
        \/ PfReturn(w)

SpecConc == InitConc /\ [][NextConc]_vars

-----------------------------------------------------------------------------
(* The marker-stripping of check_for_safe_versions on its own *)

Fragments == {"a", "_b", "_get", "_", "_unchecked", "unchecked", "_unch", "ecked"}

RECURSIVE Concat(_, _)
Concat(frags, i) == IF i > Len(frags) THEN "" ELSE frags[i] \o Concat(frags, i + 1)

FuncNames == { Concat(f, 1) : f \in SeqsUpTo(Fragments, MaxFrags) }

InitStrip ==
    /\ files = [p \in RsFiles |-> Parsed(<<>>)]
    /\ pc = "strip"
    /\ stack = <<>>
    /\ unchecked_functions = EmptyBag
    /\ pending = EmptyBag
    /\ results = EmptyBag
    /\ rows_left = EmptyBag
    /\ report = NoFile
    /\ run = 1
    /\ prev_report = NoFile
    /\ IdleWorkers
    /\ rname \in FuncNames
    /\ rsafe = ""

\* let safe_func_name = func_name.replace("_unchecked", "");
Strip ==
    /\ pc = "strip"
    /\ rsafe' = SafeFuncName(rname)
    /\ pc' = "stripped"
    /\ UNCHANGED <<files, stack, unchecked_functions, pending, results, rows_left,
                   report, run, prev_report, workerVars, rname>>

NextStrip == Strip

SpecStrip == InitStrip /\ [][NextStrip]_vars

-----------------------------------------------------------------------------
(* Properties *)

RECURSIVE FnNames(_, _)
\* the names of the functions of a tree, at any depth, and of the methods of
\* its impl blocks
FnNames(its, i) ==
    IF i > Len(its) THEN {}
    ELSE (IF its[i].kind \in {"fn", "method"} THEN {its[i].name} ELSE {})
         \cup FnNames(its[i].items, 1) \cup FnNames(its, i + 1)

Declares(path, n) == n \in FnNames(files[path].items, 1)

Rows == BagToSet(results)
Collected == BagToSet(unchecked_functions)
AfterCollection == pc \in {"check", "create", "header", "separator", "rows", "done"}

\* C1: every row (path, name, third) has third = name without "_unchecked" when
\* the file at path declares a function or method of that name, and third =
\* "None" when the file declares none.
CounterpartCorrectness ==
    \A r \in Rows :
        IF Declares(r[1], SafeFuncName(r[2]))
        THEN r[3] = SafeFuncName(r[2])
        ELSE r[3] = "None"

\* C2: a counterpart name declared only in files other than the entry's own
\* never satisfies the match: the row of the entry is (path, name, "None").
ScopeCorrectness ==
    \A r \in Rows :
        ( /\ ~Declares(r[1], SafeFuncName(r[2]))
          /\ \E q \in RsFiles \ {r[1]} : Declares(q, SafeFuncName(r[2])) )
        => r[3] = "None"

ScopeWitness ==
    /\ pc = "done"
    /\ \E r \in Rows :
         /\ r[2] = "get_unchecked"
         /\ ~Declares(r[1], "get")
         /\ \E q \in RsFiles \ {r[1]} : Declares(q, "get")
         /\ r[3] = "None"

\* the data rows of the report that are the row of entry e
RowsOf(e) ==
    { i \in 3..Len(report.lines) :
        \E third \in {SafeFuncName(e[2]), "None"} :
            report.lines[i] = RowLine(<<e[1], e[2], third>>, MaxLens(results)) }

\* C3: after a successful run every collected (path, name) is in exactly one
\* row of the report, and the report has as many data rows as there are
\* collected entries (so no row is of another entry).
Completeness ==
    pc = "done" =>
        /\ \A e \in Collected : Cardinality(RowsOf(e)) = 1
        /\ Len(report.lines) = 2 + BagCardinality(unchecked_functions)

CompletenessWitness ==
    /\ pc = "done"
    /\ Cardinality(Collected) >= 3
    /\ \E r \in Rows : r[3] = "None"
    /\ \E r \in Rows : r[3] # "None"

\* C4: two runs over the same unmodified tree write the same report: the same
\* lines in the same order.
Determinism ==
    (run > 1 /\ pc = "done") => report = prev_report

\* C5: process_file collects (p, n) if and only if the file p has a function
\* or an impl-block method whose name n contains "_unchecked".
VisitorContract ==
    AfterCollection =>
        Collected = { <<p, n>> \in RsFiles \X (Names \cup {"outer"}) :
                        Declares(p, n) /\ Contains(n, "_unchecked") }

\* C6: no entry is reported "None" while a function or method with its
\* counterpart name is declared in the same file at a position the visitor
\* reaches.
SameTraversal ==
    \A r \in Rows : r[3] = "None" => ~Declares(r[1], SafeFuncName(r[2]))

ExpectedEntries ==
    UNION { IF files[p].ok THEN VisitFile(files[p], p) ELSE {} : p \in RsFiles }

CompleteReport ==
    /\ report.exists
    /\ Len(report.lines) = 2 + Cardinality(ExpectedEntries)

\* C7: a run that ends in an error leaves either no report file or the complete
\* one, and the report file is not created before collection and resolution
\* have both finished.
OutputAtomicity ==
    /\ pc = "failed" => (~report.exists \/ CompleteReport)
    /\ (run = 1 /\ pc \in {"start", "walk", "check"}) => ~report.exists

\* C8: at most one caller of process_file is inside the locked section, the
\* shared set never holds an entry twice, and once every caller has returned
\* the set is the union of what the visitors of the successful callers found.
ConcurrentUniqueness ==
    /\ Cardinality({ w \in Workers : wpc[w] = "insert" }) <= 1
    /\ \A e \in Collected : CopiesIn(e, unchecked_functions) = 1
    /\ (\A w \in Workers : wpc[w] \in {"returned", "failed"}) =>
          Collected = UNION { VisitFile(files[wfile[w]], wfile[w]) :
                                w \in { v \in Workers : wpc[v] = "returned" } }

ConcurrentWitness ==
    /\ \A w \in Workers : wpc[w] = "returned"
    /\ \E v, w \in Workers : v # w /\ wfile[v] = wfile[w]
    /\ Cardinality(Collected) >= 2

\* the characters of s that lie in no occurrence of "_unchecked"
InMarker(s, j) ==
    \E i \in 1..j :
        /\ j < i + Len("_unchecked")
        /\ i + Len("_unchecked") - 1 <= Len(s)
        /\ SubSeq(s, i, i + Len("_unchecked") - 1) = "_unchecked"

RECURSIVE KeepOutside(_, _)
KeepOutside(s, j) ==
    IF j > Len(s) THEN ""
    ELSE (IF InMarker(s, j) THEN "" ELSE SubSeq(s, j, j)) \o KeepOutside(s, j + 1)

\* C9: the counterpart name is the name with every occurrence of "_unchecked"
\* removed, wherever it stands, and nothing else changed.
StripsEveryMarker ==
    pc = "stripped" =>
        /\ rsafe = KeepOutside(rname, 1)
        /\ rname = "unchecked_get_unchecked" => rsafe = "unchecked_get"
        /\ rname = "a_unchecked_b_unchecked" => rsafe = "a_b"

StripWitness ==
    /\ pc = "stripped"
    /\ rname = "a_unchecked_b_unchecked"
    /\ rsafe = "a_b"

\* C10: a row whose third column is not "None" names a counterpart that differs
\* from the unchecked name and is shorter than it.
NotItsOwnCounterpart ==
    \A r \in Rows :
        r[3] # "None" => (r[3] # r[2] /\ Len(r[3]) < Len(r[2]))

=============================================================================
